---- MODULE Spec2Model ----
(***************************************************************************)
(* Bulls and Cows (RamyaLakshmiKS/GameBot): the guess / feedback /         *)
(* elimination engine of the three Streamlit apps                          *)
(*   src/src/gamebot/app.py, src/src/Cowculator/app.py,                    *)
(*   src/src/bully_bot/app.py.                                             *)
(*                                                                         *)
(* One script run of main() is one action: a chat input was submitted      *)
(* (ChatInput) or the "Restart Game" button was clicked (Restart...).      *)
(* st.session_state is the state that survives between runs.               *)
(*                                                                         *)
(* Scaling.  The apps play with 4-digit codes over the digits 0..9 (5040   *)
(* codes) and suggest up to 10 (bully_bot: 3) codes.  The model keeps the  *)
(* code unchanged and plays with CodeLen-digit codes over 0..NumDigits-1   *)
(* and MaxSuggestions suggestions.                                         *)
(***************************************************************************)
EXTENDS Integers, Sequences, FiniteSets, TLC

VARIABLES
    app,                        \* which app.py runs (fixed for a behaviour)
    secret,                     \* game.secret
    attempts,                   \* game.attempts
    possible_combinations,      \* game.possible_combinations
    first_attempt,              \* gamebot: game.first_attempt; Cowculator: st.session_state.first_attempt
    entropy_history,            \* st.session_state.entropy_history
    entropy_reduction_history,  \* gamebot: entropy_reduction_history; Cowculator: mutual_info_history
    game_over,                  \* st.session_state.game_over
    outcome,                    \* how the last run ended: the assistant message it appended ("invalid", "feedback",
                                \* "win"), the exception it raised, "locked" (no input drawn) or "none"
    suggestions,                \* the list suggest_next_guesses returned in the last run, <<>> when it was not called
                                \* (SpecAdvise, SpecSuggest)
    observed,                   \* ghost: the <<guess, feedback>> pairs the current game object has answered
    accepted,                   \* ghost: the number of guesses the current game object has answered
    event,                      \* ghost: what the last run was: "start", "input", "restart", "suggest"
    twin                        \* a second browser session that is sent the same guesses (SpecTwin): its game,
                                \* its entropy_history, its game_over and the answers it gave; <<>> elsewhere

vars == <<app, secret, attempts, possible_combinations, first_attempt, entropy_history,
          entropy_reduction_history, game_over, outcome, suggestions, observed,
          accepted, event, twin>>

\* The fields the claims call "the session".
session == <<secret, attempts, possible_combinations, entropy_history, game_over>>

(***************************************************************************)
(* Bounds                                                                  *)
(***************************************************************************)
NumDigits == 3        \* digits 0..NumDigits-1 stand for range(10)
MaxAttempts == 2      \* accepted guesses per game explored
MaxSuggestions == 2   \* stands for the literal 10 (gamebot, Cowculator) and 3 (bully_bot)
FracBits == 6         \* fractional bits of the fixed-point entropy
MaxRecorded == 3      \* entries of Cowculator's mutual_info_history, which no restart clears
MaxScoredDigit == 5   \* digits 1..MaxScoredDigit of the codes get_feedback is scored on (SpecFeedback)

(***************************************************************************)
(* Codes                                                                   *)
(***************************************************************************)
\* The length of a code: the literal 4 of random.sample(self.digits, 4),
\* permutations(range(10), 4), the validation and "bulls == 4", scaled to 2.
CodeLen == 2

digits == 0 .. (NumDigits - 1)

Injective(s) == \A i, j \in DOMAIN s : s[i] = s[j] => i = j

\* list(permutations(range(10), 4)): every ordered choice of CodeLen distinct
\* digits.  The list holds no code twice and every later list is a filtered
\* sublist of it, so a list is determined by the set of its elements.
AllCodes == {c \in [1 .. CodeLen -> digits] : Injective(c)}

Min(a, b) == IF a <= b THEN a ELSE b

Last(s) == s[Len(s)]

(***************************************************************************)
(* User input: a Python str, modelled as a sequence of characters.         *)
(*                                                                         *)
(* str.isdigit() is true of every character with the Unicode property      *)
(* Digit, which is more than "0".."9": it is true of FULLWIDTH DIGIT ONE   *)
(* (U+FF11), which int() converts to 1, and of SUPERSCRIPT TWO (U+00B2),   *)
(* which int() refuses with ValueError.                                    *)
(***************************************************************************)
DigitChar == <<"0", "1", "2", "3", "4", "5", "6", "7", "8", "9">>

AsciiDigits == {DigitChar[d + 1] : d \in digits}

FullwidthOne == "U+FF11"

SuperscriptTwo == "U+00B2"

Letter == "a"

Chars == AsciiDigits \cup {FullwidthOne, SuperscriptTwo, Letter}

\* str.isdigit(): the string is not empty and every character is a digit character.
isdigit(s) ==
    /\ Len(s) > 0
    /\ \A i \in DOMAIN s : s[i] \in AsciiDigits \cup {FullwidthOne, SuperscriptTwo}

\* int(x) of a one-character string succeeds on the decimal characters only.
IsDecimal(c) == c \in AsciiDigits \cup {FullwidthOne}

int(c) == IF c = FullwidthOne THEN 1 ELSE CHOOSE d \in digits : DigitChar[d + 1] = c

\* len(set(user_input)): the number of distinct characters.
DistinctChars(s) == Cardinality({s[i] : i \in DOMAIN s})

\* The validation condition of main(): TRUE when the input is answered with
\* "Invalid guess! Please enter 4 different digits."
IsInvalidGuess(user_input) ==
    \/ Len(user_input) # CodeLen
    \/ ~isdigit(user_input)
    \/ DistinctChars(user_input) # CodeLen

\* guess = [int(x) for x in user_input]
ParseGuess(user_input) == [i \in DOMAIN user_input |-> int(user_input[i])]

\* The inputs explored: every string of CodeLen distinct ASCII digits (the
\* guesses the game is meant for), and "0123..." cut short by one, made longer
\* by one, and with its first or its last character replaced by each of the
\* characters.
Plain == [i \in 1 .. CodeLen |-> DigitChar[i]]

Inputs ==
    {s \in [1 .. CodeLen -> AsciiDigits] : Injective(s)}
        \cup {SubSeq(Plain, 1, CodeLen - 1), Append(Plain, DigitChar[CodeLen + 1])}
        \cup {[Plain EXCEPT ![1] = c] : c \in Chars}
        \cup {[Plain EXCEPT ![CodeLen] = c] : c \in Chars}

(***************************************************************************)
(* BullsAndCows.get_feedback                                               *)
(***************************************************************************)
\* bulls = sum(g == s for g, s in zip(guess, code))
Bulls(guess, code) ==
    Cardinality({i \in 1 .. Min(Len(guess), Len(code)) : guess[i] = code[i]})

\* sum(g == s for g in guess for s in code)
Matches(guess, code) ==
    Cardinality({p \in (DOMAIN guess) \X (DOMAIN code) : guess[p[1]] = code[p[2]]})

\* Mutant: bulls counts every guess digit that occurs in the code.
get_feedback_membership(guess, code) ==
    <<Matches(guess, code), 0>>

\* Mutant: the pair is returned the wrong way round.
get_feedback_exchanged(guess, code) ==
    <<Matches(guess, code) - Bulls(guess, code), Bulls(guess, code)>>

\* Mutant: the bulls are not taken out of the cows.
get_feedback_unreduced(guess, code) ==
    <<Bulls(guess, code), Matches(guess, code)>>

get_feedback(guess, code) ==
    LET bulls == Bulls(guess, code)
        cows == Matches(guess, code) - bulls
    IN  <<bulls, cows>>

(***************************************************************************)
(* BullsAndCows.update_possibilities                                       *)
(***************************************************************************)
\* Mutant: the feedback pair is compared the wrong way round.
update_possibilities_swapped(possible, guess, bulls, cows) ==
    {combo \in possible : get_feedback(guess, combo) = <<cows, bulls>>}

\* Mutant: one code that agrees with the feedback is removed with the others.
update_possibilities_drops_one(possible, guess, bulls, cows) ==
    LET kept == {combo \in possible : get_feedback(guess, combo) = <<bulls, cows>>}
    IN  IF kept = {} THEN {} ELSE kept \ {CHOOSE combo \in kept : TRUE}

\* Mutant: the guess itself is never removed.
update_possibilities_keeps_guess(possible, guess, bulls, cows) ==
    {combo \in possible : combo = guess \/ get_feedback(guess, combo) = <<bulls, cows>>}

\* Mutant: the filter starts over from the full list of codes.
update_possibilities_fresh(possible, guess, bulls, cows) ==
    {combo \in AllCodes : get_feedback(guess, combo) = <<bulls, cows>>}

\* Mutant: only the bulls are compared.
update_possibilities_bulls(possible, guess, bulls, cows) ==
    {combo \in possible : get_feedback(guess, combo)[1] = bulls}

update_possibilities(possible, guess, bulls, cows) ==
    {combo \in possible : get_feedback(guess, combo) = <<bulls, cows>>}

\* Mutant: the filter also drops the codes that do not begin like the secret.
RemainingKnowingCode(possible, guess, code) ==
    LET feedback == get_feedback(guess, code)
    IN  {combo \in update_possibilities(possible, guess, feedback[1], feedback[2]) :
            combo[1] = code[1]}

\* bulls, cows = game.get_feedback(guess); game.update_possibilities(guess, bulls, cows):
\* the secret reaches the filter through the two numbers only.
Remaining(possible, guess, code) ==
    LET feedback == get_feedback(guess, code)
    IN  update_possibilities(possible, guess, feedback[1], feedback[2])

(***************************************************************************)
(* BullsAndCows.calculate_entropy, entropy_reduction                       *)
(*                                                                         *)
(* Floats are modelled in fixed point: a value x stands for x / 2^FracBits.*)
(***************************************************************************)
One == 2 ^ FracBits

\* Working precision of the mantissa while the fraction bits are extracted.
MantissaBits == FracBits + 4

RECURSIVE FloorLog2(_)
FloorLog2(n) == IF n < 2 THEN 0 ELSE 1 + FloorLog2(n \div 2)

\* The next b fraction bits of log2 of the mantissa m / 2^MantissaBits in [1, 2).
RECURSIVE FracLog2(_, _)
FracLog2(m, b) ==
    IF b = 0 THEN 0
    ELSE LET sq == (m * m) \div (2 ^ MantissaBits)
         IN  IF sq >= 2 ^ (MantissaBits + 1)
             THEN 2 ^ (b - 1) + FracLog2(sq \div 2, b - 1)
             ELSE FracLog2(sq, b - 1)

\* math.log2(n) for an integer n >= 1, rounded down to FracBits fraction bits.
log2(n) ==
    LET k == FloorLog2(n)
    IN  k * One + FracLog2((n * 2 ^ MantissaBits) \div (2 ^ k), FracBits)

\* Mutant: the empty list is answered with a value no other list has.
calculate_entropy_flagged(possible) ==
    LET n == Cardinality(possible)
    IN  IF n = 0 THEN -1 ELSE log2(n)

\* Mutant: one code more is counted than the list holds.
calculate_entropy_one_more(possible) ==
    log2(Cardinality(possible) + 1)

\* n == 0 returns 0; otherwise the sum of n terms p * log2(1 / p) with
\* p = 1 / n, which is log2(n).
calculate_entropy(possible) ==
    LET n == Cardinality(possible)
    IN  IF n = 0 THEN 0 ELSE log2(n)

\* Mutant: the entropy after the guess minus the entropy before it.
entropy_reduction_reversed(prev_entropy, current_entropy) == current_entropy - prev_entropy

entropy_reduction(prev_entropy, current_entropy) == prev_entropy - current_entropy

(***************************************************************************)
(* BullsAndCows.suggest_next_guesses: the set of lists the call can return *)
(***************************************************************************)
\* random.sample(population, k): k elements of the list drawn without replacement, in any order.
Samples(population, k) == {s \in [1 .. k -> population] : Injective(s)}

suggest_next_guesses_gamebot(possible) ==
    LET sample_size == Min(MaxSuggestions, Cardinality(possible))
    IN  IF possible # {} THEN Samples(possible, sample_size) ELSE {<<>>}

suggest_next_guesses_Cowculator(possible) ==
    LET num_suggestions == Min(MaxSuggestions, Cardinality(possible))
    IN  Samples(possible, num_suggestions)

suggest_next_guesses_bully_bot(possible) ==
    IF Cardinality(possible) >= MaxSuggestions
    THEN Samples(possible, MaxSuggestions)
    ELSE {<<>>}

suggest_next_guesses(a, possible) ==
    CASE a = "gamebot" -> suggest_next_guesses_gamebot(possible)
      [] a = "Cowculator" -> suggest_next_guesses_Cowculator(possible)
      [] a = "bully_bot" -> suggest_next_guesses_bully_bot(possible)

(***************************************************************************)
(* Single statements of main() the claims rest on                          *)
(***************************************************************************)
\* Mutant: input is taken whatever the game_over flag says.
InputShownAlways(over) == TRUE

\* "if not st.session_state.game_over:" -- the chat input exists only while the game is on.
InputShown(over) == ~over

\* Mutant: the counter is left alone.
IncrementAttemptsForgotten(n) == n

\* game.attempts += 1
IncrementAttempts(n) == n + 1

\* Mutant: a winning guess records no entropy.
RecordEntropyUnlessWon(entropies, entropy, bulls) ==
    IF bulls = CodeLen THEN entropies ELSE Append(entropies, entropy)

\* st.session_state.entropy_history.append(entropy), whatever the feedback was.
RecordEntropy(entropies, entropy, bulls) == Append(entropies, entropy)

\* Mutant: every run builds a new game object, with a newly drawn secret.
SessionGameRecreated(current) == AllCodes

\* "if "game" not in st.session_state: st.session_state.game = BullsAndCows()":
\* a run that finds a game in the session keeps it, and with it its secret.
SessionGame(current) == {current}

\* Mutant: the suggestions are drawn from the list as it was before the guess.
SuggestionPoolStale(before, after) == before

\* game.suggest_next_guesses() is called after game.update_possibilities(...)
\* and reads self.possible_combinations: of the list before the run and the
\* list after it, the one after.
SuggestionPool(before, after) == after

\* "if bulls == 4:"
IsWin(bulls) == bulls = CodeLen

\* The first entry of the second history: gamebot stores 0, Cowculator stores
\* the bound method game.calculate_mutual_information itself (it is not called).
InitialReduction(a) ==
    IF a = "gamebot" THEN 0 ELSE "calculate_mutual_information"

(***************************************************************************)
(* The first run of a browser session: BullsAndCows() and the              *)
(* "if ... not in st.session_state" defaults                               *)
(***************************************************************************)
SessionApps == {"gamebot", "Cowculator"}

Init ==
    /\ app \in SessionApps
    /\ secret \in AllCodes              \* random.sample(self.digits, 4)
    /\ attempts = 0
    /\ possible_combinations = AllCodes
    /\ first_attempt = TRUE
    /\ entropy_history = <<calculate_entropy(AllCodes)>>
    /\ entropy_reduction_history = <<InitialReduction(app)>>
    /\ game_over = FALSE
    /\ outcome = "none"
    /\ suggestions = <<>>
    /\ observed = {}
    /\ accepted = 0
    /\ event = "start"
    /\ twin = <<>>

(***************************************************************************)
(* A run of main() with a submitted chat input.                            *)
(*                                                                         *)
(* Cowculator's block for the first attempt (its lines 143-185) draws ten  *)
(* buttons; st.button returns True only in the run its click starts, and   *)
(* in that run st.chat_input returns None, so the block is not entered and *)
(* the bodies of those buttons never run.  What the block does in every    *)
(* run that reaches it is to clear first_attempt.                          *)
(***************************************************************************)
\* The else branch of the validation from "prev_entropy = ..." on: the guess
\* is scored and applied.
ApplyGuess(guess) ==
    LET prev_entropy == Last(entropy_history)
        feedback == get_feedback(guess, secret)
        bulls == feedback[1]
        cows == feedback[2]
        remaining == Remaining(possible_combinations, guess, secret)
        entropy == calculate_entropy(remaining)
    IN  /\ attempts' = IncrementAttempts(attempts)
        /\ possible_combinations' = remaining
        /\ entropy_history' = RecordEntropy(entropy_history, entropy, bulls)
        /\ entropy_reduction_history' =
               Append(entropy_reduction_history, entropy_reduction(prev_entropy, entropy))
        /\ observed' = observed \cup {<<guess, feedback>>}
        /\ accepted' = accepted + 1
        /\ IF IsWin(bulls)
           THEN /\ outcome' = "win"
                /\ game_over' = TRUE
                /\ UNCHANGED first_attempt
           ELSE /\ outcome' = "feedback"
                /\ first_attempt' = IF app = "Cowculator" THEN FALSE ELSE first_attempt
                /\ UNCHANGED game_over
        /\ UNCHANGED app

\* guess = [int(x) for x in user_input], then the rest of the branch, explored
\* up to MaxAttempts guesses a game and MaxRecorded entries.
ProcessGuess(user_input) ==
    /\ attempts < MaxAttempts
    /\ Len(entropy_reduction_history) < MaxRecorded
    /\ ApplyGuess(ParseGuess(user_input))

ChatInput(user_input) ==
    /\ event' = "input"
    /\ secret' \in SessionGame(secret)
    /\ IF ~InputShown(game_over)
       THEN \* no chat input is drawn: nothing is read
            /\ outcome' = "locked"
            /\ UNCHANGED <<app, attempts, possible_combinations, first_attempt,
                           entropy_history, entropy_reduction_history, game_over,
                           observed, accepted>>
       ELSE IF IsInvalidGuess(user_input)
       THEN /\ outcome' = "invalid"
            /\ UNCHANGED <<app, attempts, possible_combinations, first_attempt,
                           entropy_history, entropy_reduction_history, game_over,
                           observed, accepted>>
       ELSE IF \E i \in DOMAIN user_input : ~IsDecimal(user_input[i])
       THEN \* int(x) raises ValueError before anything is changed
            /\ outcome' = "ValueError"
            /\ UNCHANGED <<app, attempts, possible_combinations, first_attempt,
                           entropy_history, entropy_reduction_history, game_over,
                           observed, accepted>>
       ELSE ProcessGuess(user_input)

(***************************************************************************)
(* A run of main() with the "Restart Game" button clicked                  *)
(***************************************************************************)
RestartGamebot ==
    /\ app = "gamebot"
    /\ secret' \in AllCodes
    /\ attempts' = 0
    /\ possible_combinations' = AllCodes
    /\ first_attempt' = TRUE
    /\ entropy_history' = <<calculate_entropy(AllCodes)>>
    /\ entropy_reduction_history' = <<0>>
    /\ game_over' = FALSE
    /\ outcome' = "none"
    /\ observed' = {}
    /\ accepted' = 0
    /\ event' = "restart"
    /\ suggestions' = <<>>
    /\ UNCHANGED <<app, twin>>

\* Cowculator: the game, the messages and the entropy history are replaced;
\* the next statement reads prev_entropy, a local of main() that is bound only
\* in a run that processed a guess, and a restart run has none (and with it
\* bound, a float minus a list raises TypeError).  The run ends with the
\* exception and the statements after it are not reached.
RestartCowculator ==
    /\ app = "Cowculator"
    /\ secret' \in AllCodes
    /\ attempts' = 0
    /\ possible_combinations' = AllCodes
    /\ entropy_history' = <<calculate_entropy(AllCodes)>>
    /\ outcome' = "NameError"
    /\ observed' = {}
    /\ accepted' = 0
    /\ event' = "restart"
    /\ suggestions' = <<>>
    /\ UNCHANGED <<app, first_attempt, entropy_reduction_history, game_over, twin>>

\* The suggestions of a run go into the text of its assistant message and
\* nowhere else.  Spec keeps no message text; SpecAdvise keeps the list.
Next ==
    \/ \E user_input \in Inputs : ChatInput(user_input) /\ UNCHANGED <<suggestions, twin>>
    \/ RestartGamebot
    \/ RestartCowculator

Spec == Init /\ [][Next]_vars

(***************************************************************************)
(* One game, its runs with a submitted input, and the list of suggestions  *)
(* kept: the else branch of "if bulls == 4" calls                          *)
(* game.suggest_next_guesses(); no other run does.                         *)
(***************************************************************************)
Advise ==
    suggestions' \in
        IF outcome' = "feedback"
        THEN suggest_next_guesses(app, SuggestionPool(possible_combinations,
                                                      possible_combinations'))
        ELSE {<<>>}

NextAdvise == \E user_input \in Inputs : ChatInput(user_input) /\ Advise /\ UNCHANGED twin

SpecAdvise == Init /\ [][NextAdvise]_vars

(***************************************************************************)
(* One game played by guessing codes of possible_combinations only (a      *)
(* suggestion is one), guess after guess until the game is over.  No bound *)
(* on the guesses is set: the play ends by itself.                         *)
(***************************************************************************)
GuessCandidate(guess) ==
    /\ InputShown(game_over)
    /\ guess \in possible_combinations
    /\ event' = "input"
    /\ secret' \in SessionGame(secret)
    /\ ApplyGuess(guess)
    /\ UNCHANGED <<suggestions, twin>>

NextCandidate == \E guess \in AllCodes : GuessCandidate(guess)

SpecCandidate == Init /\ [][NextCandidate]_vars

(***************************************************************************)
(* Two browser sessions of one app with different secrets, sent the same   *)
(* guesses.  Each has its own st.session_state: the first is the state of  *)
(* Spec, the second is the record twin, which the same statements of       *)
(* main() update.  The two are followed as long as they have given the     *)
(* same answers and both games are on.                                     *)
(***************************************************************************)
\* The branch of a guess that passed validation, on the session t.
Answered(t, guess) ==
    LET feedback == get_feedback(guess, t.secret)
        bulls == feedback[1]
        remaining == Remaining(t.possible_combinations, guess, t.secret)
        entropy == calculate_entropy(remaining)
    IN  [secret |-> t.secret,
         attempts |-> IncrementAttempts(t.attempts),
         possible_combinations |-> remaining,
         entropy_history |-> RecordEntropy(t.entropy_history, entropy, bulls),
         game_over |-> (t.game_over \/ IsWin(bulls)),
         observed |-> t.observed \cup {<<guess, feedback>>}]

InitTwin ==
    /\ app \in SessionApps
    /\ secret \in AllCodes
    /\ attempts = 0
    /\ possible_combinations = AllCodes
    /\ first_attempt = TRUE
    /\ entropy_history = <<calculate_entropy(AllCodes)>>
    /\ entropy_reduction_history = <<InitialReduction(app)>>
    /\ game_over = FALSE
    /\ outcome = "none"
    /\ suggestions = <<>>
    /\ observed = {}
    /\ accepted = 0
    /\ event = "start"
    /\ twin \in {[secret |-> code,
                   attempts |-> 0,
                   possible_combinations |-> AllCodes,
                   entropy_history |-> <<calculate_entropy(AllCodes)>>,
                   game_over |-> FALSE,
                   observed |-> {}] : code \in AllCodes \ {secret}}

GuessBoth(guess) ==
    /\ InputShown(game_over)
    /\ InputShown(twin.game_over)
    /\ twin.observed = observed
    /\ attempts < MaxAttempts
    /\ event' = "input"
    /\ secret' \in SessionGame(secret)
    /\ ApplyGuess(guess)
    /\ twin' = Answered(twin, guess)
    /\ UNCHANGED suggestions

NextTwin == \E guess \in AllCodes : GuessBoth(guess)

SpecTwin == InitTwin /\ [][NextTwin]_vars

(***************************************************************************)
(* suggest_next_guesses as a function of the list alone: the three apps    *)
(* applied to every list of at most MaxSuggestions + 1 codes               *)
(***************************************************************************)
SuggestApps == {"gamebot", "Cowculator", "bully_bot"}

Pools == {S \in SUBSET AllCodes : Cardinality(S) <= MaxSuggestions + 1}

InitSuggest ==
    /\ app \in SuggestApps
    /\ possible_combinations \in Pools
    /\ secret \in AllCodes
    /\ attempts = 0
    /\ first_attempt = TRUE
    /\ entropy_history = <<calculate_entropy(AllCodes)>>
    /\ entropy_reduction_history = <<0>>
    /\ game_over = FALSE
    /\ outcome = "none"
    /\ suggestions = <<>>
    /\ observed = {}
    /\ accepted = 0
    /\ event = "start"
    /\ twin = <<>>

CallSuggest ==
    /\ event = "start"
    /\ suggestions' \in suggest_next_guesses(app, possible_combinations)
    /\ event' = "suggest"
    /\ UNCHANGED <<app, secret, attempts, possible_combinations, first_attempt,
                   entropy_history, entropy_reduction_history, game_over, outcome,
                   observed, accepted, twin>>

NextSuggest == CallSuggest

SpecSuggest == InitSuggest /\ [][NextSuggest]_vars

(***************************************************************************)
(* get_feedback as a function of its two arguments, at the length the apps *)
(* play with: every guess of FullLen distinct digits scored against every  *)
(* code of FullLen distinct digits                                         *)
(***************************************************************************)
\* The literal 4 of random.sample(self.digits, 4), unscaled.
FullLen == 4

\* The digits 1..MaxScoredDigit stand for range(10).
ScoredCodes == {c \in [1 .. FullLen -> 1 .. MaxScoredDigit] : Injective(c)}

InitFeedback ==
    /\ app = "gamebot"
    /\ secret \in ScoredCodes
    /\ attempts = 0
    /\ possible_combinations = ScoredCodes
    /\ first_attempt = TRUE
    /\ entropy_history = <<calculate_entropy(ScoredCodes)>>
    /\ entropy_reduction_history = <<0>>
    /\ game_over = FALSE
    /\ outcome = "none"
    /\ suggestions = <<>>
    /\ observed = {}
    /\ accepted = 0
    /\ event = "start"
    /\ twin = <<>>

\* game.get_feedback(guess): the guess is scored against self.secret.
CallFeedback ==
    /\ event = "start"
    /\ \E guess \in ScoredCodes : observed' = {<<guess, get_feedback(guess, secret)>>}
    /\ event' = "score"
    /\ UNCHANGED <<app, secret, attempts, possible_combinations, first_attempt,
                   entropy_history, entropy_reduction_history, game_over, outcome,
                   suggestions, accepted, twin>>

NextFeedback == CallFeedback

SpecFeedback == InitFeedback /\ [][NextFeedback]_vars

(***************************************************************************)
(* The elimination engine fed without end: guess after guess is scored     *)
(* against one secret and the list is filtered with the answer.  The run   *)
(* of main() counts the guesses and stops at a win; the engine does        *)
(* neither, so the state is the secret, the list, the entropy of the list  *)
(* and the guess last fed.  The fairness is that of the scenario: as long  *)
(* as a guess can be fed, one is.                                          *)
(***************************************************************************)
InitExhaust ==
    /\ app \in SuggestApps             \* the three apps share the engine
    /\ secret \in AllCodes
    /\ attempts = 0
    /\ possible_combinations = AllCodes
    /\ first_attempt = TRUE
    /\ entropy_history = <<calculate_entropy(AllCodes)>>
    /\ entropy_reduction_history = <<0>>
    /\ game_over = FALSE
    /\ outcome = "none"
    /\ suggestions = <<>>
    /\ observed = {}
    /\ accepted = 0
    /\ event = "start"
    /\ twin = <<>>

\* get_feedback, update_possibilities, calculate_entropy as main() calls them in a row.
Feed(guess) ==
    LET feedback == get_feedback(guess, secret)
        remaining == update_possibilities(possible_combinations, guess,
                                          feedback[1], feedback[2])
    IN  /\ possible_combinations' = remaining
        /\ entropy_history' = <<calculate_entropy(remaining)>>
        /\ observed' = {<<guess, feedback>>}
        /\ event' = "feed"
        /\ UNCHANGED <<app, secret, attempts, first_attempt, entropy_reduction_history,
                       game_over, outcome, suggestions, accepted, twin>>

NextExhaust == \E guess \in AllCodes : Feed(guess)

SpecExhaust == InitExhaust /\ [][NextExhaust]_vars /\ WF_vars(NextExhaust)

(***************************************************************************)
(* calculate_entropy as a function of the list alone, applied to every     *)
(* list of codes, the empty one and the full one included.  The call       *)
(* returns a number for every list: it raises nothing and writes no        *)
(* message, so outcome stays "none".                                       *)
(***************************************************************************)
InitEntropy ==
    /\ app \in SuggestApps
    /\ possible_combinations \in SUBSET AllCodes
    /\ secret = CHOOSE c \in AllCodes : TRUE
    /\ attempts = 0
    /\ first_attempt = TRUE
    /\ entropy_history = <<>>
    /\ entropy_reduction_history = <<0>>
    /\ game_over = FALSE
    /\ outcome = "none"
    /\ suggestions = <<>>
    /\ observed = {}
    /\ accepted = 0
    /\ event = "start"
    /\ twin = <<>>

\* entropy = game.calculate_entropy(); entropy_history.append(entropy)
CallEntropy ==
    /\ event = "start"
    /\ entropy_history' = Append(entropy_history, calculate_entropy(possible_combinations))
    /\ event' = "entropy"
    /\ UNCHANGED <<app, secret, attempts, possible_combinations, first_attempt,
                   entropy_reduction_history, game_over, outcome, suggestions,
                   observed, accepted, twin>>

NextEntropy == CallEntropy

SpecEntropy == InitEntropy /\ [][NextEntropy]_vars

(***************************************************************************)
(* Claims                                                                  *)
(***************************************************************************)

\* C1: while the game is in progress (game_over is false) the secret is a
\* member of possible_combinations, after any sequence of accepted guesses,
\* rejected guesses and restarts.
C1_SecretStaysPossible == ~game_over => secret \in possible_combinations

\* A game in progress whose list two answered guesses have shrunk.
C1_Witness ==
    /\ ~game_over
    /\ accepted = 2
    /\ possible_combinations # AllCodes
    /\ secret \in possible_combinations

\* A guess as the claims define it: exactly CodeLen symbols, each one of the
\* digits "0".."9", no symbol twice.
IsWellFormedGuess(user_input) ==
    /\ Len(user_input) = CodeLen
    /\ \A i \in DOMAIN user_input : user_input[i] \in AsciiDigits
    /\ Injective(user_input)

\* C2: a guess that is not well formed (wrong length, a symbol that is not a
\* digit 0-9, a repeated symbol) leaves secret, attempts, possible_combinations,
\* entropy_history and game_over as they were.
C2_MalformedGuessChangesNothing ==
    [][\A user_input \in Inputs :
          (~IsWellFormedGuess(user_input) /\ ChatInput(user_input)) => UNCHANGED session]_vars

\* The state a restart is to leave behind.
IsFreshSession ==
    /\ attempts = 0
    /\ possible_combinations = AllCodes
    /\ entropy_history = <<calculate_entropy(AllCodes)>>
    /\ ~game_over

\* C3: the run of a restart leaves a complete fresh session: attempts 0, the
\* full list of codes, the one initial entropy, and input accepted again.
C3_RestartGivesFreshSession == event = "restart" => IsFreshSession

\* C4: a step that answers a guess only removes codes from
\* possible_combinations, so the list does not grow.
C4_CandidatesOnlyShrink ==
    [][accepted' = accepted + 1 =>
          /\ possible_combinations' \subseteq possible_combinations
          /\ Cardinality(possible_combinations') <= Cardinality(possible_combinations)]_vars

\* Two guesses answered, the second of which removed codes the first had left.
C4_Witness ==
    /\ accepted = 2
    /\ \E o \in observed :
          possible_combinations # {c \in AllCodes : get_feedback(o[1], c) = o[2]}

\* The codes of the full universe that agree with every answer given so far.
Consistent == {c \in AllCodes : \A o \in observed : get_feedback(o[1], c) = o[2]}

\* C5: possible_combinations is exactly the set of codes c such that every
\* answered guess g with feedback f has get_feedback(g, c) = f.
C5_CandidatesAreTheConsistentCodes == possible_combinations = Consistent

\* Two different guesses answered, neither of which alone explains the list.
C5_Witness ==
    /\ Cardinality(observed) = 2
    /\ possible_combinations = Consistent
    /\ \A o \in observed :
          possible_combinations # {c \in AllCodes : get_feedback(o[1], c) = o[2]}

\* C6: an answered guess has CodeLen bulls exactly when it equals the secret,
\* its feedback is then (CodeLen, 0), and a run ends with the win message only
\* when the secret itself was guessed.
C6_AllBullsIffSecret ==
    /\ \A o \in observed :
          /\ (o[2][1] = CodeLen) <=> (o[1] = secret)
          /\ (o[1] = secret) => (o[2] = <<CodeLen, 0>>)
    /\ (outcome = "win") => (<<secret, <<CodeLen, 0>>>> \in observed)

\* A game won with the second guess, the first having been wrong.
C6_Witness ==
    /\ outcome = "win"
    /\ Cardinality(observed) = 2
    /\ \E o \in observed : o[1] # secret /\ o[2][1] < CodeLen

\* C7: once game_over is set, a run with a submitted input changes none of
\* secret, attempts, possible_combinations, entropy_history and game_over, and
\* game_over is cleared by a restart only.
C7_WonIsTerminal ==
    [][game_over =>
          /\ (event' = "input" => UNCHANGED session)
          /\ (~game_over' => event' = "restart")]_vars

\* An input submitted to a game that is over.
C7_Witness == game_over /\ event = "input" /\ outcome = "locked"

\* C8: entropy_history has attempts + 1 entries.
C8_EntropyHistoryLength == Len(entropy_history) = attempts + 1

\* A game won with the second guess: three entries, the last for the winning guess.
C8_Witness == outcome = "win" /\ attempts = 2 /\ Len(entropy_history) = 3

\* C9: attempts is the number of guesses answered since the game object was
\* created; rejected inputs are not counted and the winning guess is.
C9_AttemptsCountAnsweredGuesses == attempts = accepted

\* A won game of two answered guesses.
C9_Witness == game_over /\ outcome = "win" /\ accepted = 2 /\ attempts = 2

\* C10: suggest_next_guesses returns min(k, |S|) codes of the list S, none
\* twice: all of S when |S| < k and nothing when S is empty.
C10_SuggestReturnsMinOfKAndSize ==
    event = "suggest" =>
        /\ Len(suggestions) = Min(MaxSuggestions, Cardinality(possible_combinations))
        /\ \A i \in DOMAIN suggestions : suggestions[i] \in possible_combinations
        /\ Injective(suggestions)

\* The digits a code is made of.
DigitsOf(code) == {code[i] : i \in DOMAIN code}

\* C11: for a guess and a code of pairwise distinct digits get_feedback
\* returns as bulls the number of positions where the two agree and as cows
\* the number of digits the two share minus the bulls (1234 against 1325
\* gives 1 bull and 2 cows).
C11_FeedbackCountsPositionsAndSharedDigits ==
    event = "score" =>
        \A o \in observed :
            LET guess == o[1]
                agreeing == Cardinality({i \in 1 .. FullLen : guess[i] = secret[i]})
                shared == Cardinality(DigitsOf(guess) \cap DigitsOf(secret))
            IN  o[2] = <<agreeing, shared - agreeing>>

\* The guess 1234 scored against the code 1325: 1 bull, 2 cows.
C11_Witness ==
    /\ event = "score"
    /\ secret = <<1, 3, 2, 5>>
    /\ observed = {<<<<1, 2, 3, 4>>, <<1, 2>>>>}

\* C12: for a guess and a code of pairwise distinct digits the bulls and the
\* cows are each between 0 and 4 and their sum is at most 4.
C12_FeedbackWithinBounds ==
    event = "score" =>
        \A o \in observed :
            /\ o[2][1] \in 0 .. FullLen
            /\ o[2][2] \in 0 .. FullLen
            /\ o[2][1] + o[2][2] <= FullLen

\* The bounds are met: a guess that is the code with two pairs of digits
\* exchanged has no bull and 4 cows.
C12_Witness ==
    /\ event = "score"
    /\ secret = <<1, 2, 3, 4>>
    /\ observed = {<<<<2, 1, 4, 3>>, <<0, FullLen>>>>}

\* C13 as stated: guesses fed without end, each answered for the one secret,
\* bring possible_combinations to exactly {secret} and leave it there.
C13_FeedingEventuallyLeavesTheSecret == <>[](possible_combinations = {secret})

\* C13, amended: every guess fed keeps the secret in possible_combinations;
\* feeding the secret itself leaves exactly {secret}; once the list is
\* {secret} every later guess leaves it {secret}; and the entropy of the
\* list {secret} is 0.  (Guesses that tell the remaining codes apart need
\* never be fed, so the list need not reach {secret}.)
C13_SecretLeftIsKept ==
    [][/\ secret \in possible_combinations'
       /\ (<<secret, <<CodeLen, 0>>>> \in observed') => (possible_combinations' = {secret})
       /\ (possible_combinations = {secret}) => (possible_combinations' = {secret})
       /\ (possible_combinations' = {secret}) => (Last(entropy_history') = 0)]_vars

\* The list is {secret} with entropy 0 after a guess other than the secret.
C13_Witness ==
    /\ event = "feed"
    /\ possible_combinations = {secret}
    /\ Last(entropy_history) = 0
    /\ \E o \in observed : o[1] # secret

\* C14: an input submitted while the game is on is answered as a guess exactly
\* when it is well formed (CodeLen symbols, each a digit 0-9, no symbol
\* twice); every other input is answered with the invalid-guess message and
\* is not scored.
C14_AcceptedIffWellFormed ==
    [][\A user_input \in Inputs :
          (InputShown(game_over) /\ ChatInput(user_input)) =>
              /\ (outcome' \in {"feedback", "win"}) <=> IsWellFormedGuess(user_input)
              /\ ~IsWellFormedGuess(user_input) =>
                     (outcome' = "invalid" /\ observed' = observed /\ accepted' = accepted)]_vars

RECURSIVE FallingFactorial(_, _)
FallingFactorial(d, k) == IF k = 0 THEN 1 ELSE d * FallingFactorial(d - 1, k - 1)

\* e is the fixed-point logarithm to base 2 of n >= 1, told without computing
\* a logarithm: 0 for 1, a whole number exactly for the powers of two, and
\* 2 ^ j <= n ^ 8 < 2 ^ (j + 1) for j the whole part of 8 times the value,
\* which fixes the value to three binary places.
IsLog2Of(e, n) ==
    LET j == (8 * e) \div One
    IN  /\ 2 ^ j <= n ^ 8
        /\ n ^ 8 < 2 ^ (j + 1)
        /\ (e % One = 0) <=> (\E k \in 0 .. n : n = 2 ^ k)
        /\ (e = 0) <=> (n = 1)

\* C16: the entropy of a list of n codes is log2(n) for n > 0 and 0 for
\* n = 0; for the full list of codes it is log2 of the number of codes (5040
\* in the apps); it is 0 exactly when at most one code is left.
C16_EntropyIsLog2OfSize ==
    event = "entropy" =>
        LET n == Cardinality(possible_combinations)
            e == Last(entropy_history)
        IN  /\ (n = 0) => (e = 0)
            /\ (n > 0) => IsLog2Of(e, n)
            /\ (possible_combinations = AllCodes) =>
                   IsLog2Of(e, FallingFactorial(NumDigits, CodeLen))
            /\ (e = 0) <=> (n <= 1)

\* The entropy of the full list was computed, and it is not a whole number.
C16_Witness ==
    /\ event = "entropy"
    /\ possible_combinations = AllCodes
    /\ Last(entropy_history) > One
    /\ Last(entropy_history) % One # 0

\* C17: a run that answers the winning guess sets game_over and suggests
\* nothing; a run that answers any other guess suggests codes of
\* possible_combinations as the guess has left it, so every suggestion agrees
\* with the feedback just given (and with every earlier one).
C17_SuggestionsComeFromTheFilteredList ==
    /\ (outcome = "win") => (game_over /\ suggestions = <<>>)
    /\ (outcome = "feedback") =>
           /\ ~game_over
           /\ Len(suggestions) = Min(MaxSuggestions, Cardinality(possible_combinations))
           /\ \A i \in DOMAIN suggestions :
                  /\ suggestions[i] \in possible_combinations
                  /\ \A o \in observed : get_feedback(o[1], suggestions[i]) = o[2]

\* Suggestions given after a second guess that removed codes the first had left.
C17_Witness ==
    /\ outcome = "feedback"
    /\ accepted = 2
    /\ suggestions # <<>>
    /\ \E o \in observed :
          possible_combinations # {c \in AllCodes : get_feedback(o[1], c) = o[2]}

\* C18: the secret is drawn when the game object is created; a run with a
\* submitted input, answered or not, leaves it as it is, and only a restart
\* replaces it.
C18_SecretFixedUntilRestart ==
    [][/\ (event' = "input") => (secret' = secret)
       /\ (secret' # secret) => (event' = "restart")
       /\ secret' \in AllCodes]_vars

\* Two guesses answered, neither the secret, and the game still on.
C18_Witness ==
    /\ event = "input"
    /\ outcome = "feedback"
    /\ Cardinality(observed) = 2
    /\ \A o \in observed : o[1] # secret

\* C19: the reduction recorded for an answered guess is the last entry of
\* entropy_history before the guess minus the entry the guess appends; it is
\* not negative, and entropy_history never rises from one entry to the next.
C19_ReductionIsTheDropOfEntropy ==
    [][accepted' = accepted + 1 =>
          /\ Len(entropy_reduction_history') = Len(entropy_reduction_history) + 1
          /\ Last(entropy_reduction_history') = Last(entropy_history) - Last(entropy_history')
          /\ Last(entropy_reduction_history') >= 0
          /\ \A i \in 1 .. (Len(entropy_history') - 1) :
                 entropy_history'[i] >= entropy_history'[i + 1]]_vars

\* Two guesses answered, each of which lowered the entropy.
C19_Witness ==
    /\ accepted = 2
    /\ Len(entropy_history) = 3
    /\ entropy_history[1] > entropy_history[2]
    /\ entropy_history[2] > entropy_history[3]
    /\ Last(entropy_reduction_history) = entropy_history[2] - entropy_history[3]

\* C20: whenever game_over is set, possible_combinations is exactly {secret},
\* the last entry of entropy_history is 0 and attempts is at least 1, after
\* any sequence of guesses and restarts.
C20_GameOverMeansSecretFound ==
    game_over =>
        /\ possible_combinations = {secret}
        /\ Last(entropy_history) = 0
        /\ attempts >= 1

\* C21: an answered guess that is not the winning one and was a code of
\* possible_combinations leaves a strictly smaller list without the guess;
\* so a player who guesses codes of the list only has the game over after at
\* most as many guesses as there are codes: the guesses made and the codes
\* left never add up to more than the number of codes, and as long as the
\* game is not over there is a code of the list left to guess.
C21_CandidateGuessesShrinkAndWin ==
    /\ [][(accepted' = accepted + 1 /\ outcome' = "feedback") =>
             /\ possible_combinations' \subseteq possible_combinations
             /\ Cardinality(possible_combinations') < Cardinality(possible_combinations)
             /\ \A o \in observed' \ observed :
                    o[1] \in possible_combinations /\ o[1] \notin possible_combinations']_vars
    /\ [](attempts <= Cardinality(AllCodes))
    /\ [](~game_over => attempts + Cardinality(possible_combinations) <= Cardinality(AllCodes))
    /\ [](~game_over => possible_combinations # {})

\* A game won with the third guess, every guess a code of the list.
C21_Witness ==
    /\ game_over
    /\ outcome = "win"
    /\ attempts = 3
    /\ Cardinality(observed) = 3

\* C23: answering a guess the game has already answered leaves
\* possible_combinations as it is, adds 1 to attempts, appends to
\* entropy_history an entry equal to its last one and records the reduction 0.
C23_RepeatedGuessFiltersNothing ==
    [][(accepted' = accepted + 1 /\ observed' = observed) =>
          /\ possible_combinations' = possible_combinations
          /\ attempts' = attempts + 1
          /\ entropy_history' = Append(entropy_history, Last(entropy_history))
          /\ Last(entropy_reduction_history') = 0]_vars

\* One guess answered twice, with codes other than the secret still left.
C23_Witness ==
    /\ accepted = 2
    /\ attempts = 2
    /\ Cardinality(observed) = 1
    /\ outcome = "feedback"
    /\ Cardinality(possible_combinations) > 1
    /\ entropy_history[3] = entropy_history[2]

\* C22: two sessions with different secrets that were sent the same guesses
\* and gave the same answers have the same possible_combinations, the same
\* attempts and the same entropy_history.
C22_SameAnswersSameCandidates ==
    (twin.secret # secret /\ twin.observed = observed) =>
        /\ twin.possible_combinations = possible_combinations
        /\ twin.attempts = attempts
        /\ twin.entropy_history = entropy_history

\* Two different guesses answered alike by two games with different secrets,
\* and both secrets still in the list.
C22_Witness ==
    /\ twin.secret # secret
    /\ twin.observed = observed
    /\ Cardinality(observed) = 2
    /\ attempts = 2
    /\ {secret, twin.secret} \subseteq possible_combinations

====
